---- MODULE Spec2Model ----
(***************************************************************************)
(* BookingModal (src/src/components/booking/BookingModal.tsx): the modal   *)
(* that loads a mentor's open time slots and books one of them.            *)
(*                                                                         *)
(* The component's state is the five useState cells; the two async flows   *)
(* (loadAvailableSlots, bookSlot) are cut at every await: each resolution  *)
(* of a remote call is one action that runs the flow up to its next await  *)
(* (or to its end, catch and finally included).  Remote calls are          *)
(* collaborators: each resolves with any outcome its interface allows.     *)
(***************************************************************************)
EXTENDS Naturals, Sequences, FiniteSets, Bags, TLC

\* ------------------------------------------------------------------ bounds
\* Booking attempts (calls of bookSlot) followed per behaviour.
MaxAttempts == 2
\* Changes of the mentorId prop followed per behaviour.
MaxMentorChanges == 1

\* ------------------------------------------------------------- collaborators
Mentors == {"m1", "m2"}
SlotIds == {"s1", "s2", "s3"}
SlotMentor(s) == IF s = "s3" THEN "m2" ELSE "m1"
\* start_time of a slot (an ordinal standing for the ISO timestamp)
StartTime(s) == CASE s = "s1" -> 10 [] s = "s2" -> 11 [] OTHER -> 12
NoSlot == "null"
NoUser == "none"
\* messages an error raised by a remote call may carry ("" : it carries none)
ThrownMessages == {"", "Network error"}

LoadFailedMessage == "Failed to load available time slots"
NotAuthenticatedMessage == "Not authenticated"
BookFailedMessage == "Failed to book the slot"
ProfilesMessage == "Could not fetch user profiles"
FallbackMessage == "Failed to book the session. Please try again."

Range(s) == {s[i] : i \in 1..Len(s)}

VARIABLES
    phase,              \* "created" | "mounted" | "unmounted"
    mentorId,           \* the mentorId prop of the latest render
    slots,              \* useState<TimeSlot[]>([])
    loading,            \* useState(true)
    bookingInProgress,  \* useState(false)
    bookingSlotId,      \* useState<string | null>(null)
    error,              \* useState('')
    loads,              \* loadAvailableSlots calls in flight: the mentorId each captured
    att,                \* bookSlot calls in flight: a bag of attempt records
    nAttempts,          \* bookSlot calls started
    loadsStarted,       \* history: loadAvailableSlots calls started
    mentorChanges,      \* history: renders whose mentorId differed from the previous one
    lastEvent           \* history: the step taken last

vars == <<phase, mentorId, slots, loading, bookingInProgress, bookingSlotId, error,
          loads, att, nAttempts, loadsStarted, mentorChanges, lastEvent>>

component == <<slots, loading, bookingInProgress, bookingSlotId, error>>
history == <<loadsStarted, mentorChanges>>

\* One call of bookSlot(slotId, startTime) with the mentorId its closure
\* captured: where it stands (pc), what its remote calls resolved with, the
\* error it threw, the calls it made in order (log), and whether the latest
\* setError call of the component is its own (wroteErrorLast).
NewAttempt(s, m) ==
    [pc |-> "start", slotId |-> s, mentorId |-> m, user |-> "pending",
     rpc |-> "notcalled", student |-> "notcalled", mentor |-> "notcalled",
     email |-> "notcalled", threw |-> FALSE, message |-> "", log |-> <<>>,
     wroteErrorLast |-> TRUE]

NoAttempt == [NewAttempt(NoSlot, "m1") EXCEPT !.pc = "none", !.wroteErrorLast = FALSE]

\* The step taken last: a load that failed ("loadFailed"), delivered no slot
\* ("loadEmpty") or delivered some ("loadOk"), an attempt ending as record r in
\* the catch block ("failed") or past onBookingComplete ("completed"), or any
\* other step ("step"). data is the list a load delivered.
Event(k, r) == [kind |-> k, r |-> r, data |-> <<>>]
Step == Event("step", NoAttempt)

\* A step of the load issued for mentor m, whose query delivered list d.
LoadEvent(k, m, d) == [Event(k, [NoAttempt EXCEPT !.mentorId = m]) EXCEPT !.data = d]

\* The component was removed: React discards the state updates of a
\* component that is no longer mounted.
Disposed == phase = "unmounted"

Init ==
    /\ phase = "created"
    /\ mentorId = "m1"
    /\ slots = <<>>
    /\ loading = TRUE
    /\ bookingInProgress = FALSE
    /\ bookingSlotId = NoSlot
    /\ error = ""
    /\ loads = <<>>
    /\ att = EmptyBag
    /\ nAttempts = 0
    /\ loadsStarted = 0
    /\ mentorChanges = 0
    /\ lastEvent = Step

\* ------------------------------------------------------------- slot loader

\* What the slot query (lines 34-40) can deliver for mentor m: that mentor's
\* open slots, any subset of them, in ascending start_time order.
SlotLists(m) ==
    {q \in UNION {[1..n -> {s \in SlotIds : SlotMentor(s) = m}] : n \in 0..2} :
        \A i \in 1..Len(q) : \A j \in 1..Len(q) :
            i < j => StartTime(q[i]) < StartTime(q[j])}

\* The resolved value { data, error } of the slot query.
LoadOutcomes(m) ==
    {[error |-> TRUE, null |-> FALSE, data |-> <<>>],
     [error |-> FALSE, null |-> TRUE, data |-> <<>>]}
    \cup {[error |-> FALSE, null |-> FALSE, data |-> d] : d \in SlotLists(m)}

\* if (error) throw error  (line 42); a rejected query throws as well
LoadThrows(o) == o.error

\* q is in non-decreasing start_time order
Ascending(q) ==
    \A i \in 1..Len(q) : \A j \in 1..Len(q) : i < j => StartTime(q[i]) <= StartTime(q[j])

\* faulty variant: the delivered list is sorted again by start_time before it
\* is stored
DataOrEmptySorted(o) ==
    IF o.null THEN <<>>
    ELSE CHOOSE q \in [1..Len(o.data) -> Range(o.data)] :
            Range(q) = Range(o.data) /\ Ascending(q)

\* data || []  (line 43)
DataOrEmpty(o) == IF o.null THEN <<>> ELSE o.data

\* faulty variant: no dependency array: the effect runs after every render
DepsChangedAlways(old, new) == TRUE

\* the dependency array [mentorId] (line 30): the effect runs again when the
\* prop differs from the one of the previous render
DepsChanged(old, new) == old # new

\* loadAvailableSlots up to its await (lines 32-40): the query is issued with
\* the mentorId of the render whose effect runs
StartLoad(m) ==
    /\ loads' = Append(loads, m)
    /\ loadsStarted' = loadsStarted + 1

\* first render committed, the effect runs (lines 28-30)
Mount ==
    /\ phase = "created"
    /\ phase' = "mounted"
    /\ StartLoad(mentorId)
    /\ lastEvent' = Step
    /\ UNCHANGED <<mentorId, component, att, nAttempts, mentorChanges>>

\* the parent renders the modal again with prop m; the effect runs when the
\* dependency changed (lines 28-30). No state cell is reset.
Render(m) ==
    /\ phase = "mounted"
    /\ mentorId # m => mentorChanges < MaxMentorChanges
    /\ mentorId' = m
    /\ mentorChanges' = IF mentorId # m THEN mentorChanges + 1 ELSE mentorChanges
    /\ IF DepsChanged(mentorId, m)
         THEN /\ loadsStarted <= MaxMentorChanges
              /\ StartLoad(m)
         ELSE UNCHANGED <<loads, loadsStarted>>
    /\ lastEvent' = Step
    /\ UNCHANGED <<phase, component, att, nAttempts>>

\* the parent removes the modal (onClose, or after onBookingComplete); flows
\* in flight are not cancelled: the component has no effect cleanup
Unmount ==
    /\ phase = "mounted"
    /\ phase' = "unmounted"
    /\ lastEvent' = Step
    /\ UNCHANGED <<mentorId, component, loads, att, nAttempts, history>>

RemoveAt(s, i) == SubSeq(s, 1, i - 1) \o SubSeq(s, i + 1, Len(s))

\* Another flow called setError: no attempt of bag b wrote the error last.
Overwritten(b) == BagOfAll(LAMBDA r : [r EXCEPT !.wroteErrorLast = FALSE], b)

\* the list the query delivered, as the backend sent it
Delivered(o) == IF o.null THEN <<>> ELSE o.data

\* the slot query of load i settles with o: the rest of loadAvailableSlots
\* (lines 42-49)
LoadSettle(i, o) ==
    /\ i \in 1..Len(loads)
    /\ lastEvent' = LoadEvent(IF LoadThrows(o) THEN "loadFailed"
                              ELSE IF Len(Delivered(o)) = 0 THEN "loadEmpty" ELSE "loadOk",
                              loads[i], Delivered(o))
    /\ IF Disposed
         THEN UNCHANGED <<slots, loading, error, att>>
         ELSE /\ IF LoadThrows(o)
                   THEN /\ error' = LoadFailedMessage
                        /\ att' = Overwritten(att)
                        /\ UNCHANGED slots
                   ELSE /\ slots' = DataOrEmpty(o)
                        /\ UNCHANGED <<error, att>>
              /\ loading' = FALSE
    /\ loads' = RemoveAt(loads, i)
    /\ UNCHANGED <<phase, mentorId, bookingInProgress, bookingSlotId, nAttempts, history>>

\* the slot query of load i resolves with o, one of the outcomes the query
\* as written (ordered by start_time) allows
LoadResolve(i, o) ==
    /\ i \in 1..Len(loads)
    /\ o \in LoadOutcomes(loads[i])
    /\ LoadSettle(i, o)

\* ------------------------------------------------------------ presentation

\* the body of the modal (lines 138-156)
View == IF loading THEN "loading" ELSE IF Len(slots) = 0 THEN "empty" ELSE "list"

\* the slot rows, top to bottom: slots.map (lines 146-154)
Rows == IF View = "list" THEN slots ELSE <<>>

\* the error banner (lines 132-136)
ErrorShown == error # ""

\* isLoading of a row (line 152)
isLoading(s) == bookingInProgress /\ bookingSlotId = s

\* TimeSlotButton: a row that shows the loading indicator does not take a click
TimeSlotButtonEnabled(s) == ~isLoading(s)

\* ---------------------------------------------------------- booking invoker

\* One step of bookSlot appended to the attempt's log of calls.
Logged(r, step) == [r EXCEPT !.log = Append(r.log, step)]

\* await supabase.auth.getUser()  (line 58)
CallGetUser(r) == Logged([r EXCEPT !.pc = "getUser"], "getUser")

\* await supabase.rpc('book_time_slot', ...)  (lines 62-67)
CallRpc(r) == Logged([r EXCEPT !.pc = "rpc", !.rpc = "pending"], "rpc")

\* await Promise.all([profiles, mentor_profiles])  (lines 76-87)
CallProfiles(r) ==
    Logged([r EXCEPT !.pc = "profiles", !.student = "pending", !.mentor = "pending"],
           "profiles")

\* faulty variant: completion signalled as soon as the emails are requested
CallEmailNotAwaited(r) ==
    Logged(Logged([r EXCEPT !.pc = "email", !.email = "pending"], "email"), "complete")

\* await sendBookingEmails(...)  (lines 94-101)
CallEmail(r) == Logged([r EXCEPT !.pc = "email", !.email = "pending"], "email")

\* onBookingComplete()  (line 108), then the flow ends
CallComplete(r) == Logged([r EXCEPT !.pc = "done"], "complete")

\* throw: the flow leaves the try block with an error carrying message m
Throw(r, m) == [r EXCEPT !.pc = "done", !.threw = TRUE, !.message = m]

\* faulty variant: the check for a user is missing
UserMissingUnchecked(user) == FALSE

\* if (!user)  (line 59)
UserMissing(user) == user = NoUser

\* faulty variant: only a returned error fails the booking, a falsy result does not
RpcFailedErrorOnly(res) == res = "error"

\* if (bookingError) throw bookingError; if (!bookingResult) throw ...  (lines 69-73)
RpcFailed(res) == res \in {"error", "falsy"}

\* faulty variant: only the student's profile is checked
ProfilesMissingStudentOnly(student, mentor) == student = "nodata"

\* if (!studentProfile.data || !mentorProfile.data)  (line 89)
ProfilesMissing(student, mentor) == student = "nodata" \/ mentor = "nodata"

\* faulty variant: an unsuccessful email result is raised as an error
EmailRaisesOnFailure(res) == res # "ok"

\* sendBookingEmails raises only by rejecting; an unsuccessful result is a
\* warning and the flow goes on (lines 103-106)
EmailRaises(res) == res = "throw"

\* faulty variant: no fallback for an error without a message
CatchMessageNoFallback(m) == m

\* err.message || 'Failed to book the session. Please try again.'  (line 111)
CatchMessage(m) == IF m = "" THEN FallbackMessage ELSE m

\* faulty variant: the error of an earlier attempt is not cleared
ClearedErrorKept(previous) == previous

\* setError('') at the start of bookSlot (line 55)
ClearedError(previous) == ""

\* onBookingComplete calls in the log of attempt record r
Completions(r) == Cardinality({i \in 1..Len(r.log) : r.log[i] = "complete"})

\* book_time_slot calls outstanding
RpcOutstanding ==
    BagCardinality([r \in {x \in BagToSet(att) : x.pc = "rpc"} |-> att[r]])

Put(b, r) == b (+) SetToBag({r})
Take(b, r) == b (-) SetToBag({r})

\* Attempt r goes on to r2 without leaving bookSlot: it suspends at its next
\* await; no state cell is written.
Suspend(r, r2) ==
    /\ att' = Put(Take(att, r), r2)
    /\ lastEvent' = Step
    /\ UNCHANGED component

\* faulty variant: no finally block, the in-progress state is not cleared
FinishWithoutFinally(r, r2) ==
    /\ lastEvent' = Event(IF r2.threw THEN "failed" ELSE "completed", r2)
    /\ IF r2.threw /\ ~Disposed
         THEN /\ error' = CatchMessage(r2.message)
              /\ att' = Overwritten(Take(att, r))
         ELSE /\ att' = Take(att, r)
              /\ UNCHANGED error
    /\ UNCHANGED <<slots, loading, bookingInProgress, bookingSlotId>>

\* Attempt r ends as r2: the catch block when r2 threw (lines 109-111), then
\* the finally block (lines 112-115).
Finish(r, r2) ==
    /\ lastEvent' = Event(IF r2.threw THEN "failed" ELSE "completed", r2)
    /\ IF Disposed
         THEN /\ att' = Take(att, r)
              /\ UNCHANGED <<error, bookingInProgress, bookingSlotId>>
         ELSE /\ IF r2.threw
                   THEN /\ error' = CatchMessage(r2.message)
                        /\ att' = Overwritten(Take(att, r))
                   ELSE /\ att' = Take(att, r)
                        /\ UNCHANGED error
              /\ bookingInProgress' = FALSE
              /\ bookingSlotId' = NoSlot
    /\ UNCHANGED <<slots, loading>>

\* Attempt r goes on to r2: it ends when r2 is at "done", suspends otherwise.
Continue(r, r2) ==
    IF r2.pc = "done" THEN Finish(r, r2) ELSE Suspend(r, r2)

others == <<phase, mentorId, loads, nAttempts, history>>

\* onBook of the row of slot s: bookSlot(slot.id, slot.start_time) up to its
\* first await (lines 52-58)
Click(s) ==
    /\ phase = "mounted"
    /\ View = "list"
    /\ s \in Range(slots)
    /\ TimeSlotButtonEnabled(s)
    /\ nAttempts < MaxAttempts
    /\ nAttempts' = nAttempts + 1
    /\ bookingSlotId' = s
    /\ bookingInProgress' = TRUE
    /\ error' = ClearedError(error)
    /\ att' = Put(Overwritten(att), CallGetUser(NewAttempt(s, mentorId)))
    /\ lastEvent' = Step
    /\ UNCHANGED <<phase, mentorId, slots, loading, loads, history>>

\* getUser resolves with u (a user, none, or a rejection with message m)
\* (lines 58-67)
UserResolve(r0, u, m) ==
    /\ r0.pc = "getUser"
    /\ u \in {"u1", NoUser, "throw"}
    /\ m \in (IF u = "throw" THEN ThrownMessages ELSE {""})
    /\ LET r == [r0 EXCEPT !.user = u]
       IN  Continue(r0,
                    IF u = "throw" THEN Throw(r, m)
                    ELSE IF UserMissing(u) THEN Throw(r, NotAuthenticatedMessage)
                    ELSE CallRpc(r))
    /\ UNCHANGED others

\* book_time_slot resolves with res: a truthy result, a falsy one, a returned
\* error or a rejection, the last two with message m (lines 62-87)
RpcResolve(r0, res, m) ==
    /\ r0.pc = "rpc"
    /\ res \in {"ok", "falsy", "error", "throw"}
    /\ m \in (IF res \in {"error", "throw"} THEN ThrownMessages ELSE {""})
    /\ LET r == [r0 EXCEPT !.rpc = res]
       IN  Continue(r0,
                    IF res = "throw" THEN Throw(r, m)
                    ELSE IF RpcFailed(res)
                           THEN Throw(r, IF res = "error" THEN m ELSE BookFailedMessage)
                    ELSE CallProfiles(r))
    /\ UNCHANGED others

\* What Promise.all of the two profile fetches settles with: both resolved,
\* each with data or without, or one of them rejected ("throw") while the
\* other no longer matters ("pending").
ProfileOutcomes ==
    ({"data", "nodata"} \X {"data", "nodata"}) \cup {<<"throw", "pending">>, <<"pending", "throw">>}

\* Promise.all of the two profile fetches settles with p, a rejection carrying
\* message m (lines 76-101)
ProfilesResolve(r0, p, m) ==
    /\ r0.pc = "profiles"
    /\ p \in ProfileOutcomes
    /\ m \in (IF "throw" \in {p[1], p[2]} THEN ThrownMessages ELSE {""})
    /\ LET r == [r0 EXCEPT !.student = p[1], !.mentor = p[2]]
       IN  Continue(r0,
                    IF "throw" \in {p[1], p[2]} THEN Throw(r, m)
                    ELSE IF ProfilesMissing(p[1], p[2]) THEN Throw(r, ProfilesMessage)
                    ELSE CallEmail(r))
    /\ UNCHANGED others

\* sendBookingEmails resolves: success, an unsuccessful result, or a
\* rejection with message m (lines 94-108)
EmailResolve(r0, res, m) ==
    /\ r0.pc = "email"
    /\ res \in {"ok", "fail", "throw"}
    /\ m \in (IF res = "throw" THEN ThrownMessages ELSE {""})
    /\ LET r == Logged([r0 EXCEPT !.email = res], "emailResolved")
       IN  Continue(r0, IF EmailRaises(res) THEN Throw(r, m) ELSE CallComplete(r))
    /\ UNCHANGED others

Next ==
    \/ Mount
    \/ \E m \in Mentors : Render(m)
    \/ \E i \in 1..Len(loads) : \E o \in LoadOutcomes(loads[i]) : LoadResolve(i, o)
    \/ \E s \in SlotIds : Click(s)
    \/ \E r \in BagToSet(att) : \E u \in {"u1", NoUser, "throw"} : \E m \in ThrownMessages :
          UserResolve(r, u, m)
    \/ \E r \in BagToSet(att) : \E res \in {"ok", "falsy", "error", "throw"} :
          \E m \in ThrownMessages : RpcResolve(r, res, m)
    \/ \E r \in BagToSet(att) : \E p \in ProfileOutcomes : \E m \in ThrownMessages :
          ProfilesResolve(r, p, m)
    \/ \E r \in BagToSet(att) : \E res \in {"ok", "fail", "throw"} : \E m \in ThrownMessages :
          EmailResolve(r, res, m)

\* the modal while it is mounted
Spec == Init /\ [][Next]_vars

\* a remote call of some booking attempt resolves
AttemptStep ==
    \/ \E r \in BagToSet(att) : \E u \in {"u1", NoUser, "throw"} : \E m \in ThrownMessages :
          UserResolve(r, u, m)
    \/ \E r \in BagToSet(att) : \E res \in {"ok", "falsy", "error", "throw"} :
          \E m \in ThrownMessages : RpcResolve(r, res, m)
    \/ \E r \in BagToSet(att) : \E p \in ProfileOutcomes : \E m \in ThrownMessages :
          ProfilesResolve(r, p, m)
    \/ \E r \in BagToSet(att) : \E res \in {"ok", "fail", "throw"} : \E m \in ThrownMessages :
          EmailResolve(r, res, m)

\* the mounted modal with remote calls that all resolve: a booking attempt
\* waiting for a remote call is not left waiting forever
FairSpec == Spec /\ WF_vars(AttemptStep)

\* the modal through its whole life: the parent may remove it at any time
LifecycleNext == Next \/ Unmount

LifecycleSpec == Init /\ [][LifecycleNext]_vars

\* What the slot query delivers for mentor m when the backend does not honour
\* the order clause (line 38): that mentor's open slots in any order.
UnorderedSlotLists(m) ==
    {q \in UNION {[1..n -> {s \in SlotIds : SlotMentor(s) = m}] : n \in 0..2} :
        \A i \in 1..Len(q) : \A j \in 1..Len(q) : i # j => q[i] # q[j]}

UnorderedLoadOutcomes(m) ==
    {[error |-> FALSE, null |-> FALSE, data |-> d] : d \in UnorderedSlotLists(m)}

\* the slot query resolves with a list in the backend's own order
UnorderedLoadResolve(i, o) ==
    /\ i \in 1..Len(loads)
    /\ o \in UnorderedLoadOutcomes(loads[i])
    /\ LoadSettle(i, o)

UnorderedNext ==
    \/ Next
    \/ \E i \in 1..Len(loads) : \E o \in UnorderedLoadOutcomes(loads[i]) :
          UnorderedLoadResolve(i, o)

\* the mounted modal over a backend that may return the slots in any order
UnorderedSpec == Init /\ [][UnorderedNext]_vars

\* ------------------------------------------------------------------ claims

\* every attempt record in view: those in flight and the one that ended last
Records == BagToSet(att) \cup {lastEvent.r}

\* the attempt that ended in the step taken last
Ended == lastEvent.r

IsPrefix(s, q) == Len(s) <= Len(q) /\ SubSeq(q, 1, Len(s)) = s

FullOrder == <<"getUser", "rpc", "profiles", "email", "emailResolved", "complete">>

\* C1: at most one booking attempt is in flight at any time: two
\* book_time_slot RPCs are never outstanding simultaneously.
C1_AtMostOneBookingRpc == RpcOutstanding <= 1

\* C2: when user resolution returns no user, bookSlot never calls the
\* book_time_slot RPC (nor profile fetch, email dispatch or onBookingComplete):
\* the attempt ends at that step, in the catch block, having called getUser
\* only, and the visible error is then 'Not authenticated'.
C2_NoUserNoBooking ==
    /\ \A r \in BagToSet(att) : r.user # NoUser
    /\ Ended.user = NoUser =>
          /\ lastEvent.kind = "failed"
          /\ Ended.log = <<"getUser">>
          /\ error = "Not authenticated"

C2_Witness == lastEvent.kind = "failed" /\ Ended.user = NoUser

AllSucceeded(r) ==
    r.user = "u1" /\ r.rpc = "ok" /\ r.student = "data" /\ r.mentor = "data" /\ r.email = "ok"

EmailFailed(r) ==
    r.user = "u1" /\ r.rpc = "ok" /\ r.student = "data" /\ r.mentor = "data" /\ r.email = "fail"

\* C4: when the RPC succeeded and both profiles were fetched but
\* sendBookingEmails returned success = false, onBookingComplete is still
\* invoked exactly once for that attempt and the attempt sets no visible error.
C4_EmailFailureTolerated ==
    \A r \in Records : EmailFailed(r) =>
        /\ r = Ended
        /\ lastEvent.kind = "completed"
        /\ Completions(r) = 1
        /\ r.wroteErrorLast => error = ""

C4_Witness ==
    lastEvent.kind = "completed" /\ EmailFailed(Ended) /\ Ended.wroteErrorLast

\* the step of the flow at which r failed before the email dispatch, if any
FailedAt(r) ==
    IF r.user \in {NoUser, "throw"} THEN "getUser"
    ELSE IF r.rpc \in {"error", "falsy", "throw"} THEN "rpc"
    ELSE IF {r.student, r.mentor} \cap {"nodata", "throw"} # {} THEN "profiles"
    ELSE "none"

\* the message of the failure of r: the one the code words itself, or the one
\* the raised error carries
FailureMessage(r) ==
    IF r.user = NoUser THEN "Not authenticated"
    ELSE IF r.rpc = "falsy" THEN "Failed to book the slot"
    ELSE IF FailedAt(r) = "profiles" /\ "throw" \notin {r.student, r.mentor}
           THEN "Could not fetch user profiles"
    ELSE r.message

\* C5: any failure during user resolution, the booking RPC (returned error
\* or falsy result) or the profile fetches ends the attempt at that step with
\* bookingInProgress = false and bookingSlotId = null, the visible error set
\* to the failure's message (the fallback when it has none), and neither
\* onBookingComplete nor any later step of the flow invoked.
C5_FailureEndsAttempt ==
    \A r \in Records : FailedAt(r) # "none" =>
        /\ r = Ended
        /\ lastEvent.kind = "failed"
        /\ ~bookingInProgress
        /\ bookingSlotId = NoSlot
        /\ error = (IF FailureMessage(r) = ""
                      THEN "Failed to book the session. Please try again."
                      ELSE FailureMessage(r))
        /\ Completions(r) = 0
        /\ r.log = (CASE FailedAt(r) = "getUser" -> <<"getUser">>
                      [] FailedAt(r) = "rpc" -> <<"getUser", "rpc">>
                      [] OTHER -> <<"getUser", "rpc", "profiles">>)

C5_Witness ==
    /\ lastEvent.kind = "failed"
    /\ FailedAt(Ended) = "rpc"
    /\ Ended.rpc = "error"
    /\ Ended.message = ""

\* C6: onBookingComplete is invoked only after a book_time_slot RPC of the
\* same attempt returned a truthy result without error, never for an attempt
\* whose RPC failed or was never issued, and at most once per attempt.
C6_CompleteOnlyAfterRpc ==
    \A r \in Records :
        /\ Completions(r) <= 1
        /\ Completions(r) > 0 =>
              /\ r.rpc = "ok"
              /\ \E i \in 1..Len(r.log) : \E j \in 1..Len(r.log) :
                    i < j /\ r.log[i] = "rpc" /\ r.log[j] = "complete"

C6_Witness ==
    /\ lastEvent.kind = "completed"
    /\ Completions(Ended) = 1
    /\ \E r \in BagToSet(att) : r.pc = "rpc"

\* C7: within one attempt the steps occur in the fixed order user
\* resolution, booking RPC, both profile fetches (awaited jointly), email
\* dispatch, its resolution, onBookingComplete.
C7_StepOrder == \A r \in Records : IsPrefix(r.log, FullOrder)

C7_Witness == Ended.log = FullOrder

\* C8: whenever a slot load fails, the visible error becomes 'Failed to load
\* available time slots', loading becomes false, and the slot list is empty.
C8_LoadFailureLeavesEmptyList ==
    lastEvent.kind = "loadFailed" =>
        /\ error = "Failed to load available time slots"
        /\ ~loading
        /\ slots = <<>>

\* C9: when the slot query succeeds with zero eligible slots, the slot list
\* is empty, loading is false, no error is shown, and the view is in the 'No
\* available time slots' state.
C9_EmptyLoadShowsEmptyState ==
    lastEvent.kind = "loadEmpty" =>
        /\ slots = <<>>
        /\ ~loading
        /\ ~ErrorShown
        /\ View = "empty"

\* C10: the slot loader is started exactly once at mount and exactly once
\* per change of the mentor identifier, and at no other time (not after a
\* load failure, not by a booking success or failure).
C10_LoadsStartedOncePerMountAndChange ==
    loadsStarted = (IF phase = "created" THEN 0 ELSE 1) + mentorChanges

C10_Witness ==
    /\ mentorChanges = 1
    /\ loadsStarted = 2
    /\ loads = <<>>
    /\ error = "Failed to load available time slots"
    /\ lastEvent.kind = "completed"

\* the email dispatch of r failed after its RPC succeeded and both profiles
\* were fetched: an unsuccessful result, or an error raised by the call
EmailDispatchFailed(r) ==
    /\ r.rpc = "ok" /\ r.student = "data" /\ r.mentor = "data"
    /\ r.email \in {"fail", "throw"}

\* C11: after the booking RPC has succeeded and the profiles were fetched, no
\* failure of the email dispatch, reported as an unsuccessful result or raised
\* as an error, is surfaced as a visible error or keeps onBookingComplete from
\* being invoked.
C11_EmailFailureNeverSurfaced ==
    \A r \in Records : EmailDispatchFailed(r) =>
        /\ lastEvent.kind = "completed"
        /\ Completions(r) = 1
        /\ r.wroteErrorLast => error = ""

\* the RPC of r succeeded and a profile fetch yielded no data
ProfileWithoutData(r) == r.rpc = "ok" /\ "nodata" \in {r.student, r.mentor}

\* C12: if the booking RPC succeeded but the student or the mentor profile
\* fetch yields no data, the attempt ends there with the visible error 'Could
\* not fetch user profiles'; no email dispatch is requested and
\* onBookingComplete is not invoked, although the slot is booked.
C12_MissingProfileIsFatal ==
    \A r \in Records : ProfileWithoutData(r) =>
        /\ r = Ended
        /\ lastEvent.kind = "failed"
        /\ error = "Could not fetch user profiles"
        /\ r.email = "notcalled"
        /\ r.log = <<"getUser", "rpc", "profiles">>

C12_Witness ==
    /\ lastEvent.kind = "failed"
    /\ Ended.rpc = "ok"
    /\ Ended.student = "data"
    /\ Ended.mentor = "nodata"
    /\ error = "Could not fetch user profiles"

\* C13: every booking attempt whose remote calls all resolve finishes,
\* whatever its outcome, with bookingInProgress = false and bookingSlotId =
\* null and the modal still open (onClose is not invoked), so that after a
\* failed attempt every displayed slot takes a new booking attempt.
C13_AttemptsFinish ==
    /\ [](lastEvent.kind \in {"failed", "completed"} =>
             /\ ~bookingInProgress
             /\ bookingSlotId = NoSlot
             /\ phase = "mounted")
    /\ [](lastEvent.kind = "failed" => \A s \in Range(slots) : TimeSlotButtonEnabled(s))
    /\ (att # EmptyBag ~> att = EmptyBag)

C13_Witness ==
    /\ lastEvent.kind = "failed"
    /\ View = "list"
    /\ att = EmptyBag
    /\ nAttempts < MaxAttempts

\* C14: bookingInProgress and bookingSlotId express one invariant: in every
\* reachable state bookingInProgress is true exactly when bookingSlotId is
\* non-null, both hold exactly when some booking attempt is in flight, and
\* bookingSlotId names the slot of that attempt (the one row that shows the
\* loading indicator).
C14_OneInvariant ==
    /\ bookingInProgress <=> bookingSlotId # NoSlot
    /\ bookingInProgress <=> att # EmptyBag
    /\ \A r \in BagToSet(att) : r.slotId = bookingSlotId /\ isLoading(r.slotId)

\* what the modal presents: the body (one of loading, empty, list) and the
\* error banner
Presented == {View} \cup (IF ErrorShown THEN {"error"} ELSE {})

\* C15: the view is always in exactly one of the states loading, error,
\* empty, list; in particular the error state and the 'No available time
\* slots' empty state are never presented at the same time.
C15_OneViewState ==
    /\ Cardinality(Presented) = 1
    /\ ~(ErrorShown /\ View = "empty")

\* C16: after the component has been unmounted, no load or booking flow in
\* flight changes a state cell (slots, loading, error, bookingInProgress,
\* bookingSlotId) or invokes onBookingComplete.
C16_NothingAfterUnmount ==
    [][phase = "unmounted" =>
          /\ component' = component
          /\ ~(lastEvent'.kind = "completed" /\ Completions(lastEvent'.r) > 0)]_vars

\* C17 as stated: the slot rows are displayed in non-decreasing start-time
\* order for every slot list the slot query may return, including a list the
\* backend returns unsorted.
C17_RowsAscending == Ascending(Rows)

\* C17: the slot rows are displayed in exactly the order in which the slot
\* query returned them; the component never re-sorts, so the rows are in
\* non-decreasing start-time order if and only if the returned list is.
C17_RowsInQueryOrder ==
    lastEvent.kind = "loadOk" =>
        /\ Rows = lastEvent.data
        /\ Ascending(Rows) <=> Ascending(lastEvent.data)

C17_Witness ==
    /\ lastEvent.kind = "loadOk"
    /\ lastEvent.data = <<"s2", "s1">>
    /\ Rows = <<"s2", "s1">>

LoadKinds == {"loadOk", "loadEmpty", "loadFailed"}

\* C18: when the mentor identifier changes while an earlier load is still in
\* flight, then once all loads have resolved the displayed slot list is the
\* result of the load for the current mentor identifier: the response that
\* arrived last is never the one of a previous mentor's load, and no slot of a
\* previous mentor is displayed once the current mentor's load has finished,
\* successfully or not.
C18_LatestLoadWins ==
    (phase = "mounted" /\ loads = <<>>) =>
        /\ lastEvent.kind \in LoadKinds => lastEvent.r.mentorId = mentorId
        /\ \A s \in Range(Rows) : SlotMentor(s) = mentorId

\* C19: every book_time_slot RPC is issued with a slot id that belongs to the
\* mentor id passed in the same call (p_mentor_id is the mentor for whom the
\* booked slot was loaded), also when the mentor identifier changes while the
\* previous mentor's slots are displayed or while an attempt is suspended at
\* user resolution.
C19_RpcSlotBelongsToMentor ==
    \A r \in Records : "rpc" \in Range(r.log) => SlotMentor(r.slotId) = r.mentorId

====
